---- MODULE Spec2Model ----
(***************************************************************************)
(* Committee service (controllers/committee controller, src/unnamed/       *)
(* part_000) and auth service (auth controller, src/unnamed/part_001) of   *)
(* the tender application, as a state machine over the User store, the     *)
(* Committee store, the upload directory and the issued session tokens.    *)
(* One action per HTTP handler; a handler's awaits are taken in one step.  *)
(***************************************************************************)
EXTENDS Integers, Sequences, FiniteSets, TLC

VARIABLES
  users,          \* User store: internal id -> document, or NoUser
  committees,     \* Committee store: internal id -> document, or NoCommittee
  nextCommittee,  \* next fresh committee id (ids are never reused)
  files,          \* paths present in the upload directory
  nextFile,       \* next fresh path the upload middleware stores under
  unlinks,        \* paths with an fs.unlink issued whose callback has not run
  req,            \* the request the last handler served
  res,            \* what that handler answered (res.json or next(err))
  trace,          \* store, file-system and responder calls of that handler, in order
  tokens,         \* session tokens signed with the secret so far
  resets,         \* raw password-reset tokens generated so far
  nextUser,       \* next fresh user id (ids are never reused)
  now,            \* the clock (Date.now(), in the unit of the token lifetimes)
  served          \* requests served so far that count against the run's budget

vars ==
  <<users, committees, nextCommittee, files, nextFile, unlinks, req, res, trace,
    tokens, resets, nextUser, now, served>>
\* what the committee handlers never touch
authVars == <<tokens, resets, nextUser, now>>
\* what the auth handlers never touch
committeeVars == <<committees, nextCommittee, files, nextFile, unlinks>>

(***************************************************************************)
(* Bounds of the model.                                                    *)
(***************************************************************************)
NumUsers == 2        \* users registered before the first request
MaxCommittees == 2   \* committee ids ever allocated
MaxMembers == 2      \* entries in a request's member list
MaxFiles == 2        \* uploads ever stored
MaxRequests == 3     \* requests served in one run
MaxTime == 3         \* the clock runs from 1 to MaxTime

\* one id beyond the registered users, for a registration
UserIds == 1..(NumUsers + 1)
Registered == 1..NumUsers
CommitteeIds == 1..MaxCommittees
Paths == 1..MaxFiles

EmployeeIdTable == <<"E100", "E101", "E102", "E103">>
EmailTable == <<"a@x.org", "b@x.org", "c@x.org", "d@x.org">>
NameTable == <<"Asha", "Bina", "Chet", "Dev">>
RoleTable == <<"admin", "staff", "staff", "staff">>
DepartmentTable == <<"Procurement", "Finance", "Legal", "Stores">>
DesignationTable == <<"Director", "Officer", "Clerk", "Keeper">>
PasswordTable == <<"pw1", "pw2", "pw1", "pw2">>
UnknownEmployeeId == "E999"
Names == {"Asha", "Bina"}
CommitteeNames == {"Tender", "Audit"}

NoUser == [absent |-> TRUE]
NoCommittee == [absent |-> TRUE]

(***************************************************************************)
(* JavaScript values of a request body.                                    *)
(***************************************************************************)
Undefined == [t |-> "undefined"]
Null == [t |-> "null"]
Str(s) == [t |-> "string", s |-> s]
Num(n) == [t |-> "number", n |-> n]
Obj(e) == [t |-> "object", employeeId |-> e]
Arr(items) == [t |-> "array", items |-> items]
\* A string body field holding JSON text: the text is named by what JSON.parse
\* makes of it (a value), or is malformed.
JsonText(v) == [t |-> "string", json |-> v]
Malformed == [t |-> "malformed"]

\* typeof v === 'string'
IsString(v) == v.t = "string"

\* Boolean(v) for the values above
Truthy(v) ==
  CASE v.t = "string" -> v.s # ""
    [] v.t = "number" -> v.n # 0
    [] v.t = "object" -> TRUE
    [] v.t = "array" -> TRUE
    [] OTHER -> FALSE

\* String.prototype.trim on the strings of the model
Trim(s) == IF s = " " THEN "" ELSE s

(***************************************************************************)
(* Session tokens: the payload jwt.sign makes ({ id, iat } and, with       *)
(* expiresIn, exp; exp = 0: none).                                         *)
(***************************************************************************)
JwtExpiresIn == 2    \* process.env.JWT_EXPIRES_IN
NoToken == [id |-> 0, iat |-> 0, exp |-> 0]
\* a token the secret did not sign
Forged == [id |-> 1, iat |-> 0, exp |-> 0]

(***************************************************************************)
(* Errors handed to next(), and the answer of a handler.                   *)
(***************************************************************************)
NoError == [type |-> "none", statusCode |-> 0, message |-> "", named |-> ""]
\* new AppError(message, statusCode); named is the value interpolated in the message
AppError(message, statusCode, named) ==
  [type |-> "AppError", statusCode |-> statusCode, message |-> message, named |-> named]
\* an exception of the runtime or of the store: it carries no statusCode
Thrown(type) == [type |-> type, statusCode |-> 0, message |-> "", named |-> ""]

\* The index of the first occurrence of e in the sequence s, or 0
IndexOf(s, e) ==
  IF \E i \in 1..Len(s) : s[i] = e
  THEN CHOOSE i \in 1..Len(s) : s[i] = e /\ \A j \in 1..(i - 1) : s[j] # e
  ELSE 0

(***************************************************************************)
(* The User document (models/userModel.js is not among the sources: the    *)
(* fields are those the two controllers read and write).                   *)
(***************************************************************************)
\* bcrypt's hash of a password: one-way, and equal only for equal passwords
Hash(p) == [bcrypt |-> p]
\* crypto.createHash('sha256').update(raw).digest('hex')
Sha256(raw) == [sha256 |-> raw]
\* passwordResetToken: undefined
NoHash == [sha256 |-> 0]

InitialUser(u) ==
  [ employeeId |-> EmployeeIdTable[u],
    email |-> EmailTable[u],
    name |-> NameTable[u],
    role |-> RoleTable[u],
    department |-> DepartmentTable[u],
    designation |-> DesignationTable[u],
    phoneNumber |-> "100",
    isActive |-> TRUE,
    otpEnabled |-> FALSE,
    permissions |-> {},
    password |-> Hash(PasswordTable[u]),
    passwordChangedAt |-> 0,
    passwordResetToken |-> NoHash,
    passwordResetExpires |-> 0 ]

\* User.findOne({ employeeId }): the matching user ids (employeeId is unique)
FindByEmployeeId(employeeId) ==
  {u \in UserIds : users[u] # NoUser /\ users[u].employeeId = employeeId}

(***************************************************************************)
(* Member resolution, shared by createCommittee and updateCommittee.       *)
(***************************************************************************)
\* m.employeeId of a list entry that is not a string (undefined unless an object has it)
EmployeeIdProp(m) == IF m.t = "object" THEN m.employeeId ELSE Undefined

\* typeof m === 'string' ? m : (m.employeeId || '')
MemberId(m) ==
  IF IsString(m) THEN m
  ELSE IF Truthy(EmployeeIdProp(m)) THEN EmployeeIdProp(m) ELSE Str("")

\* memberData.map(...) reads a property of every entry: null has none (TypeError)
MapThrows(items) == \E i \in 1..Len(items) : items[i] = Null

MemberIds(items) == [i \in 1..Len(items) |-> MemberId(items[i])]

\* memberIds.every(id => typeof id === 'string' && id.trim() !== '')
ValidIds(ids) == \A i \in 1..Len(ids) : IsString(ids[i]) /\ Trim(ids[i].s) # ""

\* the snapshot pushed for a resolved user
Snapshot(user) ==
  [ name |-> user.name,
    role |-> user.role,
    email |-> user.email,
    employeeId |-> user.employeeId,
    department |-> user.department,
    designation |-> user.designation ]

\* Mutant of ResolveMembers: an id that matches no user is dropped and the loop goes on
RECURSIVE ResolveMembersSkipping(_, _, _)
ResolveMembersSkipping(ids, i, membersArray) ==
  IF i > Len(ids)
  THEN [found |-> TRUE, missing |-> "", members |-> membersArray, reads |-> Len(ids)]
  ELSE LET hit == FindByEmployeeId(ids[i].s) IN
       IF hit = {}
       THEN ResolveMembersSkipping(ids, i + 1, membersArray)
       ELSE ResolveMembersSkipping(ids, i + 1,
              Append(membersArray, Snapshot(users[CHOOSE u \in hit : TRUE])))

\* Mutant of ResolveMembers: a user already in the array is not pushed again
RECURSIVE ResolveMembersUnique(_, _, _)
ResolveMembersUnique(ids, i, membersArray) ==
  IF i > Len(ids)
  THEN [found |-> TRUE, missing |-> "", members |-> membersArray, reads |-> Len(ids)]
  ELSE LET hit == FindByEmployeeId(ids[i].s) IN
       IF hit = {}
       THEN [found |-> FALSE, missing |-> ids[i].s, members |-> membersArray, reads |-> i]
       ELSE IF \E k \in 1..Len(membersArray) : membersArray[k].employeeId = ids[i].s
       THEN ResolveMembersUnique(ids, i + 1, membersArray)
       ELSE ResolveMembersUnique(ids, i + 1,
              Append(membersArray, Snapshot(users[CHOOSE u \in hit : TRUE])))

\* for (const employeeId of memberIds) { findOne; 404 if none; push }
RECURSIVE ResolveMembers(_, _, _)
ResolveMembers(ids, i, membersArray) ==
  IF i > Len(ids)
  THEN [found |-> TRUE, missing |-> "", members |-> membersArray, reads |-> Len(ids)]
  ELSE LET hit == FindByEmployeeId(ids[i].s) IN
       IF hit = {}
       THEN [found |-> FALSE, missing |-> ids[i].s, members |-> membersArray, reads |-> i]
       ELSE ResolveMembers(ids, i + 1,
              Append(membersArray, Snapshot(users[CHOOSE u \in hit : TRUE])))

Reads(n) == [i \in 1..n |-> "User.findOne"]

\* The "Process members" block: how it ends (passed: on to the save; returned: the
\* handler returned next(err); thrown: an exception left the block), with the
\* members array built and the store calls made.
ProcessMembers(members) ==
  IF ~(members.t \in {"array", "string"})
       \/ (members.t = "array" /\ Len(members.items) = 0)
  THEN [kind |-> "passed", resolved |-> FALSE, error |-> NoError, members |-> <<>>, trace |-> <<>>]
  ELSE IF members.t = "string" /\ members.json = Malformed
  THEN [kind |-> "thrown", resolved |-> FALSE, error |-> Thrown("SyntaxError"), members |-> <<>>, trace |-> <<>>]
  ELSE LET memberData == IF members.t = "string" THEN members.json ELSE members IN
       IF memberData.t # "array" \/ MapThrows(memberData.items)
       THEN [kind |-> "thrown", resolved |-> FALSE, error |-> Thrown("TypeError"), members |-> <<>>, trace |-> <<>>]
       ELSE LET memberIds == MemberIds(memberData.items) IN
            IF ~ValidIds(memberIds)
            THEN [kind |-> "returned", resolved |-> FALSE,
                  error |-> AppError("All member IDs must be non-empty strings", 400, ""),
                  members |-> <<>>, trace |-> <<>>]
            ELSE LET r == ResolveMembers(memberIds, 1, <<>>) IN
                 IF ~r.found
                 THEN [kind |-> "returned", resolved |-> FALSE,
                       error |-> AppError("User with employee ID not found", 404, r.missing),
                       members |-> r.members, trace |-> Reads(r.reads)]
                 ELSE [kind |-> "passed", resolved |-> TRUE, error |-> NoError,
                       members |-> r.members, trace |-> Reads(r.reads)]

(***************************************************************************)
(* Request bodies: a body is a function from the keys it carries to their  *)
(* values; a key it does not carry reads as undefined.                     *)
(***************************************************************************)
Has(body, k) == k \in DOMAIN body
Get(body, k) == IF Has(body, k) THEN body[k] ELSE Undefined

\* the keys of allowedUpdates left after the undefined ones are deleted
Whitelisted(body, keys) == [k \in (DOMAIN body \cap keys) |-> body[k]]

\* Object.assign(doc, updates) on a schema-strict document: keys of the schema only
Assign(doc, updates) ==
  [k \in DOMAIN doc |-> IF k \in DOMAIN updates THEN updates[k] ELSE doc[k]]

\* .populate('createdBy', 'name email role employeeId'); a creator who is no
\* longer in the store populates as null
Populate(doc) ==
  IF doc = NoCommittee THEN doc
  ELSE IF users[doc.createdBy] = NoUser THEN [doc EXCEPT !.createdBy = NoUser]
  ELSE [doc EXCEPT !.createdBy =
          [ id |-> doc.createdBy,
            name |-> users[doc.createdBy].name,
            email |-> users[doc.createdBy].email,
            role |-> users[doc.createdBy].role,
            employeeId |-> users[doc.createdBy].employeeId ]]

\* res.status(status).json({ status: 'success', data })
Answer(status, data) ==
  [status |-> status, error |-> NoError, data |-> data,
   token |-> NoToken, cookie |-> NoToken, user |-> 0]
\* next(err): the central responder answers; the handler sends nothing itself
Failure(error) ==
  [status |-> 0, error |-> error, data |-> NoCommittee,
   token |-> NoToken, cookie |-> NoToken, user |-> 0]

\* if (shouldNotify === 'true') await sendCommitteeNotifications(populatedCommittee):
\* one transporter.sendMail per member, awaited together; a rejection is caught
\* inside sendCommitteeNotifications and logged, a success is logged too
Notifies(body) == Get(body, "shouldNotify") = Str("true")
sendCommitteeNotifications(committee, mailFails) ==
  [i \in 1..Len(committee.members) |-> "transporter.sendMail"]
    \o (IF mailFails /\ Len(committee.members) > 0
        THEN <<"console.error">> ELSE <<"console.log">>)

\* a sendMail of this run was rejected: the run got as far as notifying at least
\* one member and the mail transport failed
MailFailed(body, run, mailFails) ==
  run.saved /\ Notifies(body) /\ mailFails /\ Len(run.doc.members) > 0

\* What a request log shows of a members field: the list it denotes (a JSON
\* text is shown parsed), undefined when absent, Malformed when unparsable
Parsed(members) == IF members.t = "string" THEN members.json ELSE members

(***************************************************************************)
(* createCommittee (POST /api/committees).  The upload middleware has      *)
(* stored the file (path # 0) before the handler runs.                     *)
(***************************************************************************)
\* the handler's run: what it answers, the document it saved (if any), whether
\* the catch block ran, and its calls in order
\* Mutant of CreateRun: a rejected sendMail is not caught and fails the request
CreateRunNotifyThrows(body, reqUser, path, saveThrows, mailFails) ==
  LET m == ProcessMembers(Get(body, "members"))
      cleanup == IF path # 0 THEN <<"fs.unlink">> ELSE <<>>
      notified(d) == IF Notifies(body) THEN sendCommitteeNotifications(d, mailFails)
                     ELSE <<>>
      doc == [ name |-> body.name,
               members |-> m.members,
               createdBy |-> reqUser,
               formationLetter |-> path,
               approvalStatus |-> "pending" ]
  IN CASE m.kind = "returned" ->
            [res |-> Failure(m.error), saved |-> FALSE, caught |-> FALSE, doc |-> NoCommittee,
             trace |-> m.trace \o <<"next">>]
       [] m.kind = "thrown" ->
            [res |-> Failure(m.error), saved |-> FALSE, caught |-> TRUE, doc |-> NoCommittee,
             trace |-> m.trace \o cleanup \o <<"next">>]
       [] m.kind = "passed" /\ saveThrows ->
            [res |-> Failure(Thrown("StoreError")), saved |-> FALSE, caught |-> TRUE,
             doc |-> NoCommittee,
             trace |-> m.trace \o <<"Committee.save">> \o cleanup \o <<"next">>]
       [] m.kind = "passed" /\ ~saveThrows /\ Notifies(body) /\ mailFails
            /\ Len(m.members) > 0 ->
            [res |-> Failure(Thrown("MailError")), saved |-> TRUE, caught |-> TRUE, doc |-> doc,
             trace |-> m.trace \o <<"Committee.save", "Committee.findById">>
                         \o notified(doc) \o cleanup \o <<"next">>]
       [] OTHER ->
            [res |-> Answer(201, Populate(doc)), saved |-> TRUE, caught |-> FALSE, doc |-> doc,
             trace |-> m.trace \o <<"Committee.save", "Committee.findById">>
                         \o notified(doc) \o <<"res.json">>]

CreateRun(body, reqUser, path, saveThrows, mailFails) ==
  LET m == ProcessMembers(Get(body, "members"))
      cleanup == IF path # 0 THEN <<"fs.unlink">> ELSE <<>>
      notified(d) == IF Notifies(body) THEN sendCommitteeNotifications(d, mailFails)
                     ELSE <<>>
      doc == [ name |-> body.name,
               members |-> m.members,
               createdBy |-> reqUser,
               formationLetter |-> path,
               approvalStatus |-> "pending" ]
  IN CASE m.kind = "returned" ->
            [res |-> Failure(m.error), saved |-> FALSE, caught |-> FALSE, doc |-> NoCommittee,
             trace |-> m.trace \o <<"next">>]
       [] m.kind = "thrown" ->
            [res |-> Failure(m.error), saved |-> FALSE, caught |-> TRUE, doc |-> NoCommittee,
             trace |-> m.trace \o cleanup \o <<"next">>]
       [] m.kind = "passed" /\ saveThrows ->
            [res |-> Failure(Thrown("StoreError")), saved |-> FALSE, caught |-> TRUE,
             doc |-> NoCommittee,
             trace |-> m.trace \o <<"Committee.save">> \o cleanup \o <<"next">>]
       [] OTHER ->
            [res |-> Answer(201, Populate(doc)), saved |-> TRUE, caught |-> FALSE, doc |-> doc,
             trace |-> m.trace \o <<"Committee.save", "Committee.findById">>
                         \o notified(doc) \o <<"res.json">>]

createCommittee(reqUser, body, hasFile, saveThrows, mailFails) ==
  /\ users[reqUser] # NoUser
  /\ nextCommittee <= MaxCommittees
  /\ hasFile => nextFile <= MaxFiles
  /\ LET path == IF hasFile THEN nextFile ELSE 0
         run == CreateRun(body, reqUser, path, saveThrows, mailFails)
     IN /\ committees' = IF run.saved
                         THEN [committees EXCEPT ![nextCommittee] = run.doc]
                         ELSE committees
        /\ nextCommittee' = IF run.saved THEN nextCommittee + 1 ELSE nextCommittee
        /\ files' = IF hasFile THEN files \cup {path} ELSE files
        /\ nextFile' = IF hasFile THEN nextFile + 1 ELSE nextFile
        /\ unlinks' = IF run.caught /\ hasFile THEN unlinks \cup {path} ELSE unlinks
        /\ req' = [op |-> "createCommittee", id |-> IF run.saved THEN nextCommittee ELSE 0,
                   members |-> Parsed(Get(body, "members")), file |-> path,
                   notify |-> Notifies(body),
                   mailFailed |-> MailFailed(body, run, mailFails)]
        /\ res' = run.res
        /\ trace' = run.trace
  /\ UNCHANGED <<users, authVars>>

(***************************************************************************)
(* The callback of an fs.unlink: the file is removed, or the error is      *)
(* logged and the file stays.                                              *)
(***************************************************************************)
UnlinkDone(path, ok) ==
  /\ path \in unlinks
  /\ unlinks' = unlinks \ {path}
  /\ files' = IF ok THEN files \ {path} ELSE files
  /\ UNCHANGED <<users, committees, nextCommittee, nextFile, req, res, trace, authVars>>

(***************************************************************************)
(* updateCommittee (PATCH /api/committees/:id)                             *)
(***************************************************************************)
UpdateCommitteeKeys == {"name", "members", "shouldNotify", "approvalStatus"}

UpdateRun(id, body, saveThrows, mailFails) ==
  LET committee == committees[id]
      allowedUpdates == Whitelisted(body, UpdateCommitteeKeys)
      m == ProcessMembers(Get(allowedUpdates, "members"))
      \* allowedUpdates.members = membersArray, when the list was resolved; an empty
      \* array is assigned as it came
      merged == [k \in DOMAIN allowedUpdates |->
                   IF k = "members" THEN m.members ELSE allowedUpdates[k]]
      doc == Assign(committee, merged)
      failed == AppError("Failed to update committee", 500, "")
      notified == IF Notifies(body) THEN sendCommitteeNotifications(doc, mailFails)
                  ELSE <<>>
  IN CASE committee = NoCommittee ->
            [res |-> Failure(AppError("No committee found with that ID", 404, "")),
             saved |-> FALSE, doc |-> committee,
             trace |-> <<"Committee.findById", "next">>]
       [] committee # NoCommittee /\ m.kind = "returned" ->
            [res |-> Failure(m.error), saved |-> FALSE, doc |-> committee,
             trace |-> <<"Committee.findById">> \o m.trace \o <<"next">>]
       [] committee # NoCommittee /\ m.kind = "thrown" ->
            [res |-> Failure(failed), saved |-> FALSE, doc |-> committee,
             trace |-> <<"Committee.findById">> \o m.trace \o <<"next">>]
       [] committee # NoCommittee /\ m.kind = "passed" /\ saveThrows ->
            [res |-> Failure(failed), saved |-> FALSE, doc |-> committee,
             trace |-> <<"Committee.findById">> \o m.trace \o <<"Committee.save", "next">>]
       [] OTHER ->
            [res |-> Answer(200, Populate(doc)), saved |-> TRUE, doc |-> doc,
             trace |-> <<"Committee.findById">> \o m.trace
                         \o <<"Committee.save", "Committee.findById">>
                         \o notified \o <<"res.json">>]

updateCommittee(reqUser, id, body, saveThrows, mailFails) ==
  /\ users[reqUser] # NoUser
  /\ LET run == UpdateRun(id, body, saveThrows, mailFails)
     IN /\ committees' = IF run.saved THEN [committees EXCEPT ![id] = run.doc] ELSE committees
        /\ req' = [op |-> "updateCommittee", id |-> id,
                   members |-> Parsed(Get(body, "members")), file |-> 0,
                   body |-> body, notify |-> Notifies(body),
                   mailFailed |-> MailFailed(body, run, mailFails)]
        /\ res' = run.res
        /\ trace' = run.trace
  /\ UNCHANGED <<users, nextCommittee, files, nextFile, unlinks, authVars>>

(***************************************************************************)
(* getCommittee (GET /api/committees/:id)                                  *)
(***************************************************************************)
\* the request before this one was a fetch of the same committee
Refetch(id) == req.op = "getCommittee" /\ req.id = id

\* Mutant of getCommittee: a fetch marks the committee as viewed
getCommitteeMarking(id, findThrows) ==
  /\ CASE findThrows ->
            /\ res' = Failure(AppError("Failed to fetch committee", 500, ""))
            /\ trace' = <<"Committee.findById", "next">>
            /\ committees' = committees
       [] ~findThrows /\ committees[id] = NoCommittee ->
            /\ res' = Failure(AppError("Committee not found", 404, ""))
            /\ trace' = <<"Committee.findById", "next">>
            /\ committees' = committees
       [] OTHER ->
            /\ res' = Answer(200, Populate(committees[id]))
            /\ trace' = <<"Committee.findById", "res.json">>
            /\ committees' = [committees EXCEPT ![id].approvalStatus = "viewed"]
  /\ req' = [op |-> "getCommittee", id |-> id, repeat |-> Refetch(id)]
  /\ UNCHANGED <<users, nextCommittee, files, nextFile, unlinks, authVars>>

getCommittee(id, findThrows) ==
  /\ CASE findThrows ->
            /\ res' = Failure(AppError("Failed to fetch committee", 500, ""))
            /\ trace' = <<"Committee.findById", "next">>
       [] ~findThrows /\ committees[id] = NoCommittee ->
            /\ res' = Failure(AppError("Committee not found", 404, ""))
            /\ trace' = <<"Committee.findById", "next">>
       [] OTHER ->
            /\ res' = Answer(200, Populate(committees[id]))
            /\ trace' = <<"Committee.findById", "res.json">>
  /\ req' = [op |-> "getCommittee", id |-> id, repeat |-> Refetch(id)]
  /\ UNCHANGED <<users, committeeVars, authVars>>

(***************************************************************************)
(* deleteCommittee (DELETE /api/committees/:id)                            *)
(***************************************************************************)
\* Mutant of DeleteRun: the formation letter is never unlinked
DeleteRunKeepingFile(id, deleteThrows) ==
  LET committee == committees[id]
  IN CASE committee = NoCommittee ->
            [res |-> Failure(AppError("No committee found with that ID", 404, "")),
             deleted |-> FALSE, unlinked |-> 0,
             trace |-> <<"Committee.findById", "next">>]
       [] committee # NoCommittee /\ deleteThrows ->
            [res |-> Failure(AppError("Error deleting committee", 400, "")),
             deleted |-> FALSE, unlinked |-> 0,
             trace |-> <<"Committee.findById", "Committee.findByIdAndDelete", "next">>]
       [] OTHER ->
            [res |-> Answer(204, NoCommittee), deleted |-> TRUE, unlinked |-> 0,
             trace |-> <<"Committee.findById", "Committee.findByIdAndDelete", "res.json">>]

DeleteRun(id, deleteThrows) ==
  LET committee == committees[id]
      letter == IF committee = NoCommittee THEN 0 ELSE committee.formationLetter
      unlink == IF letter # 0 THEN <<"fs.unlink">> ELSE <<>>
  IN CASE committee = NoCommittee ->
            [res |-> Failure(AppError("No committee found with that ID", 404, "")),
             deleted |-> FALSE, unlinked |-> 0,
             trace |-> <<"Committee.findById", "next">>]
       [] committee # NoCommittee /\ deleteThrows ->
            [res |-> Failure(AppError("Error deleting committee", 400, "")),
             deleted |-> FALSE, unlinked |-> letter,
             trace |-> <<"Committee.findById">> \o unlink
                         \o <<"Committee.findByIdAndDelete", "next">>]
       [] OTHER ->
            [res |-> Answer(204, NoCommittee), deleted |-> TRUE, unlinked |-> letter,
             trace |-> <<"Committee.findById">> \o unlink
                         \o <<"Committee.findByIdAndDelete", "res.json">>]

deleteCommittee(reqUser, id, deleteThrows) ==
  /\ users[reqUser] # NoUser
  /\ LET run == DeleteRun(id, deleteThrows)
     IN /\ committees' = IF run.deleted THEN [committees EXCEPT ![id] = NoCommittee]
                         ELSE committees
        /\ unlinks' = IF run.unlinked # 0 THEN unlinks \cup {run.unlinked} ELSE unlinks
        /\ req' = [op |-> "deleteCommittee", id |-> id, members |-> Undefined,
                   file |-> run.unlinked]
        /\ res' = run.res
        /\ trace' = run.trace
  /\ UNCHANGED <<users, nextCommittee, files, nextFile, authVars>>

(***************************************************************************)
(* updateUser, updateMe, deleteUser (auth controller)                      *)
(***************************************************************************)
UpdateUserKeys ==
  {"name", "email", "role", "department", "phoneNumber", "designation",
   "isActive", "otpEnabled", "permissions"}
UpdateMeKeys ==
  {"name", "email", "department", "phoneNumber", "designation", "otpEnabled"}

\* the user object the update handlers answer with
PublicUser(id, user) ==
  [ id |-> id, name |-> user.name, email |-> user.email, role |-> user.role,
    employeeId |-> user.employeeId, department |-> user.department,
    phoneNumber |-> user.phoneNumber, designation |-> user.designation,
    isActive |-> user.isActive, otpEnabled |-> user.otpEnabled,
    permissions |-> user.permissions ]

\* user.save() rejects a document whose email another user holds (unique index)
SaveUserThrows(id, doc) ==
  \E v \in UserIds \ {id} : users[v] # NoUser /\ users[v].email = doc.email

\* Mutant of updateUser: the member snapshots of the user are refreshed in every committee
updateUserLinked(reqUser, userId, body) ==
  /\ users[reqUser] # NoUser
  /\ users[userId] # NoUser
  /\ LET doc == Assign(users[userId], Whitelisted(body, UpdateUserKeys))
     IN /\ ~SaveUserThrows(userId, doc)
        /\ users' = [users EXCEPT ![userId] = doc]
        /\ committees' =
             [c \in CommitteeIds |->
                IF committees[c] = NoCommittee THEN NoCommittee
                ELSE [committees[c] EXCEPT !.members =
                        [i \in 1..Len(committees[c].members) |->
                           IF committees[c].members[i].employeeId = doc.employeeId
                           THEN Snapshot(doc) ELSE committees[c].members[i]]]]
        /\ res' = Answer(200, PublicUser(userId, doc))
        /\ trace' = <<"User.findById", "User.save", "res.json">>
  /\ req' = [op |-> "updateUser", id |-> userId, user |-> reqUser, body |-> body]
  /\ UNCHANGED <<nextCommittee, files, nextFile, unlinks, authVars>>

updateUser(reqUser, userId, body) ==
  /\ users[reqUser] # NoUser
  /\ LET user == users[userId]
         doc == Assign(user, Whitelisted(body, UpdateUserKeys))
     IN CASE user = NoUser ->
               /\ users' = users
               /\ res' = Failure(AppError("No user found with that ID", 404, ""))
               /\ trace' = <<"User.findById", "next">>
          [] user # NoUser /\ SaveUserThrows(userId, doc) ->
               /\ users' = users
               /\ res' = Failure(AppError("Error updating user", 400, ""))
               /\ trace' = <<"User.findById", "User.save", "next">>
          [] OTHER ->
               /\ users' = [users EXCEPT ![userId] = doc]
               /\ res' = Answer(200, PublicUser(userId, doc))
               /\ trace' = <<"User.findById", "User.save", "res.json">>
  /\ req' = [op |-> "updateUser", id |-> userId, user |-> reqUser, body |-> body]
  /\ UNCHANGED <<committeeVars, authVars>>

\* req.body.password || req.body.role || req.body.permissions || req.body.isActive
SensitiveField(body) ==
  \/ Has(body, "password") /\ body.password # ""
  \/ Has(body, "role") /\ body.role # ""
  \/ Has(body, "permissions")
  \/ Has(body, "isActive") /\ body.isActive

\* Mutant of updateMe: the request body is assigned to the user as it came
updateMeAssignsBody(reqUser, body) ==
  /\ users[reqUser] # NoUser
  /\ LET user == users[reqUser]
         doc == Assign(user, body)
     IN CASE SensitiveField(body) ->
               /\ users' = users
               /\ res' = Failure(AppError(
                    "This route is not for password, role, permissions, or status updates",
                    400, ""))
               /\ trace' = <<"next">>
          [] ~SensitiveField(body) /\ SaveUserThrows(reqUser, doc) ->
               /\ users' = users
               /\ res' = Failure(AppError("Error updating your profile", 400, ""))
               /\ trace' = <<"User.findById", "User.save", "next">>
          [] OTHER ->
               /\ users' = [users EXCEPT ![reqUser] = doc]
               /\ res' = Answer(200, PublicUser(reqUser, doc))
               /\ trace' = <<"User.findById", "User.save", "res.json">>
  /\ req' = [op |-> "updateMe", id |-> reqUser, user |-> reqUser, body |-> body]
  /\ UNCHANGED <<committeeVars, authVars>>

updateMe(reqUser, body) ==
  /\ users[reqUser] # NoUser
  /\ LET user == users[reqUser]
         doc == Assign(user, Whitelisted(body, UpdateMeKeys))
     IN CASE SensitiveField(body) ->
               /\ users' = users
               /\ res' = Failure(AppError(
                    "This route is not for password, role, permissions, or status updates",
                    400, ""))
               /\ trace' = <<"next">>
          [] ~SensitiveField(body) /\ SaveUserThrows(reqUser, doc) ->
               /\ users' = users
               /\ res' = Failure(AppError("Error updating your profile", 400, ""))
               /\ trace' = <<"User.findById", "User.save", "next">>
          [] OTHER ->
               /\ users' = [users EXCEPT ![reqUser] = doc]
               /\ res' = Answer(200, PublicUser(reqUser, doc))
               /\ trace' = <<"User.findById", "User.save", "res.json">>
  /\ req' = [op |-> "updateMe", id |-> reqUser, user |-> reqUser, body |-> body]
  /\ UNCHANGED <<committeeVars, authVars>>

\* Mutant of deleteUser: the requester's own account is deleted like any other
deleteUserSelf(reqUser, userId) ==
  /\ users[reqUser] # NoUser
  /\ IF users[userId] = NoUser
     THEN /\ users' = users
          /\ res' = Failure(AppError("No user found with that ID", 404, ""))
          /\ trace' = <<"User.findById", "next">>
     ELSE /\ users' = [users EXCEPT ![userId] = NoUser]
          /\ res' = Answer(204, NoUser)
          /\ trace' = <<"User.findById", "User.findByIdAndDelete", "res.json">>
  /\ req' = [op |-> "deleteUser", id |-> userId, user |-> reqUser, body |-> <<>>]
  /\ UNCHANGED <<committeeVars, authVars>>

deleteUser(reqUser, userId) ==
  /\ users[reqUser] # NoUser
  /\ CASE users[userId] = NoUser ->
            /\ users' = users
            /\ res' = Failure(AppError("No user found with that ID", 404, ""))
            /\ trace' = <<"User.findById", "next">>
       [] users[userId] # NoUser /\ userId = reqUser ->
            /\ users' = users
            /\ res' = Failure(AppError("You cannot delete your own account", 403, ""))
            /\ trace' = <<"User.findById", "next">>
       [] OTHER ->
            /\ users' = [users EXCEPT ![userId] = NoUser]
            /\ res' = Answer(204, NoUser)
            /\ trace' = <<"User.findById", "User.findByIdAndDelete", "res.json">>
  /\ req' = [op |-> "deleteUser", id |-> userId, user |-> reqUser, body |-> <<>>]
  /\ UNCHANGED <<committeeVars, authVars>>


(***************************************************************************)
(* Sessions (auth controller): signToken, createSendToken, register,       *)
(* login, protect.                                                         *)
(***************************************************************************)
\* jwt.sign({ id }, secret, { expiresIn }): no handler calls it
signToken(id) == [id |-> id, iat |-> now, exp |-> now + JwtExpiresIn]

\* jwt.sign({ id: user._id }, secret), the token createSendToken makes
SessionToken(id) == [id |-> id, iat |-> now, exp |-> 0]

\* createSendToken(user, statusCode, res): the cookie and the body carry the token
createSendToken(id, user, statusCode) ==
  [status |-> statusCode, error |-> NoError, data |-> PublicUser(id, user),
   token |-> SessionToken(id), cookie |-> SessionToken(id), user |-> 0]

\* user.correctPassword(candidate, user.password): bcrypt.compare
correctPassword(candidate, stored) == Hash(candidate) = stored

\* user.changedPasswordAfter(iat): the password changed after the token was issued
changedPasswordAfter(user, iat) ==
  user.passwordChangedAt # 0 /\ iat < user.passwordChangedAt

\* the pre-save hook on a modified password: hash it and stamp the change
WithPassword(user, password) ==
  [user EXCEPT !.password = Hash(password), !.passwordChangedAt = now]

\* User.findOne({ email })
FindByEmail(email) == {u \in UserIds : users[u] # NoUser /\ users[u].email = email}

\* User.create rejects a duplicate email or employee id (unique indexes)
CreateUserThrows(doc) ==
  \E v \in UserIds : /\ users[v] # NoUser
                     /\ (users[v].email = doc.email \/ users[v].employeeId = doc.employeeId)

\* body: the profile p of the tables with the given password
register(p, password) ==
  /\ nextUser \in UserIds
  /\ LET doc == [InitialUser(p) EXCEPT !.password = Hash(password)]
     IN IF CreateUserThrows(doc)
        THEN /\ users' = users
             /\ tokens' = tokens
             /\ nextUser' = nextUser
             /\ res' = Failure(Thrown("StoreError"))
             /\ trace' = <<"User.create", "next">>
        ELSE /\ users' = [users EXCEPT ![nextUser] = doc]
             /\ tokens' = tokens \cup {SessionToken(nextUser)}
             /\ nextUser' = nextUser + 1
             /\ res' = createSendToken(nextUser, doc, 201)
             /\ trace' = <<"User.create", "res.cookie", "res.json">>
  /\ req' = [op |-> "register", email |-> EmailTable[p], password |-> password]
  /\ UNCHANGED <<committeeVars, resets, now>>

\* Mutant of LoginRun: the password is not compared
LoginRunAnyPassword(email, password) ==
  LET hit == FindByEmail(email)
      id == CHOOSE u \in hit : TRUE
  IN CASE email = "" \/ password = "" ->
            [res |-> Failure(AppError("Please provide email and password!", 400, "")),
             trace |-> <<"next">>]
       [] email # "" /\ password # "" /\ hit = {} ->
            [res |-> Failure(AppError("Incorrect email or password", 401, "")),
             trace |-> <<"User.findOne", "next">>]
       [] email # "" /\ password # "" /\ hit # {} /\ ~users[id].isActive ->
            [res |-> Failure(AppError("Your account has been deactivated", 401, "")),
             trace |-> <<"User.findOne", "next">>]
       [] OTHER ->
            [res |-> createSendToken(id, users[id], 200),
             trace |-> <<"User.findOne", "res.cookie", "res.json">>]

\* Mutant of LoginRun: a deactivated account logs in
LoginRunInactive(email, password) ==
  LET hit == FindByEmail(email)
      id == CHOOSE u \in hit : TRUE
  IN CASE email = "" \/ password = "" ->
            [res |-> Failure(AppError("Please provide email and password!", 400, "")),
             trace |-> <<"next">>]
       [] email # "" /\ password # ""
            /\ (hit = {} \/ ~correctPassword(password, users[id].password)) ->
            [res |-> Failure(AppError("Incorrect email or password", 401, "")),
             trace |-> <<"User.findOne", "next">>]
       [] OTHER ->
            [res |-> createSendToken(id, users[id], 200),
             trace |-> <<"User.findOne", "res.cookie", "res.json">>]

\* what login answers; email and password are "" when the body lacks them
LoginRun(email, password) ==
  LET hit == FindByEmail(email)
      id == CHOOSE u \in hit : TRUE
  IN CASE email = "" \/ password = "" ->
            [res |-> Failure(AppError("Please provide email and password!", 400, "")),
             trace |-> <<"next">>]
       [] email # "" /\ password # ""
            /\ (hit = {} \/ ~correctPassword(password, users[id].password)) ->
            [res |-> Failure(AppError("Incorrect email or password", 401, "")),
             trace |-> <<"User.findOne", "next">>]
       [] email # "" /\ password # "" /\ hit # {}
            /\ correctPassword(password, users[id].password) /\ ~users[id].isActive ->
            [res |-> Failure(AppError("Your account has been deactivated", 401, "")),
             trace |-> <<"User.findOne", "next">>]
       [] OTHER ->
            [res |-> createSendToken(id, users[id], 200),
             trace |-> <<"User.findOne", "res.cookie", "res.json">>]

login(email, password) ==
  /\ LET run == LoginRun(email, password)
     IN /\ res' = run.res
        /\ trace' = run.trace
        /\ tokens' = IF run.res.token # NoToken THEN tokens \cup {run.res.token} ELSE tokens
  /\ req' = [op |-> "login", email |-> email, password |-> password]
  /\ UNCHANGED <<users, committeeVars, resets, nextUser, now>>

\* jwt.verify(token, secret) throws on a bad signature and on an elapsed exp
VerifyThrows(token) ==
  \/ token \notin tokens
  \/ token.exp # 0 /\ now >= token.exp

\* Mutant of ProtectRun: step 4, the password-change check, is left out
ProtectRunNoChangeCheck(bearer, cookie) ==
  LET token == IF bearer # NoToken THEN bearer ELSE cookie
      rejected(message) == Failure(AppError(message, 401, ""))
  IN CASE token = NoToken -> rejected("Authentication required")
       [] token # NoToken /\ VerifyThrows(token) -> rejected("Invalid or expired token")
       [] token # NoToken /\ ~VerifyThrows(token) /\ users[token.id] = NoUser ->
            rejected("User no longer exists")
       [] OTHER -> [Answer(0, NoUser) EXCEPT !.user = token.id]

\* the route guard: the user it attaches to the request (0: none, next(err) is called)
ProtectRun(bearer, cookie) ==
  LET token == IF bearer # NoToken THEN bearer ELSE cookie
      rejected(message) == Failure(AppError(message, 401, ""))
  IN CASE token = NoToken -> rejected("Authentication required")
       [] token # NoToken /\ VerifyThrows(token) -> rejected("Invalid or expired token")
       [] token # NoToken /\ ~VerifyThrows(token) /\ users[token.id] = NoUser ->
            rejected("User no longer exists")
       [] token # NoToken /\ ~VerifyThrows(token) /\ users[token.id] # NoUser
            /\ changedPasswordAfter(users[token.id], token.iat) ->
            rejected("Password changed - please log in again")
       [] OTHER -> [Answer(0, NoUser) EXCEPT !.user = token.id]

\* a request to a guarded route whose handler only reads
protect(bearer, cookie) ==
  /\ res' = ProtectRun(bearer, cookie)
  /\ req' = [op |-> "protect", token |-> IF bearer # NoToken THEN bearer ELSE cookie]
  /\ trace' = IF res'.user # 0 THEN <<"User.findById", "next()">> ELSE <<"next">>
  /\ UNCHANGED <<users, committeeVars, authVars>>

(***************************************************************************)
(* Passwords: updatePassword, forgotPassword, resetPassword.               *)
(***************************************************************************)
ResetExpiresIn == 1  \* lifetime of a password-reset token

updatePassword(reqUser, passwordCurrent, password) ==
  /\ users[reqUser] # NoUser
  /\ IF ~correctPassword(passwordCurrent, users[reqUser].password)
     THEN /\ users' = users
          /\ tokens' = tokens
          /\ res' = Failure(AppError("Your current password is wrong.", 401, ""))
          /\ trace' = <<"User.findById", "next">>
     ELSE LET doc == WithPassword(users[reqUser], password)
          IN /\ users' = [users EXCEPT ![reqUser] = doc]
             /\ tokens' = tokens \cup {SessionToken(reqUser)}
             /\ res' = createSendToken(reqUser, doc, 200)
             /\ trace' = <<"User.findById", "User.save", "res.cookie", "res.json">>
  /\ req' = [op |-> "updatePassword", id |-> reqUser, password |-> password]
  /\ UNCHANGED <<committeeVars, resets, nextUser, now>>

\* user.createPasswordResetToken(): a fresh random token, its hash and expiry stored
forgotPassword(email) ==
  /\ LET hit == FindByEmail(email)
         id == CHOOSE u \in hit : TRUE
         raw == Cardinality(resets) + 1
     IN IF hit = {}
        THEN /\ users' = users
             /\ resets' = resets
             /\ res' = Failure(AppError("There is no user with that email address.", 404, ""))
             /\ trace' = <<"User.findOne", "next">>
        ELSE /\ users' = [users EXCEPT ![id].passwordResetToken = Sha256(raw),
                                       ![id].passwordResetExpires = now + ResetExpiresIn]
             /\ resets' = resets \cup {raw}
             /\ res' = [Answer(200, NoUser) EXCEPT !.data = [resetToken |-> raw]]
             /\ trace' = <<"User.findOne", "User.save", "res.json">>
  /\ req' = [op |-> "forgotPassword", email |-> email]
  /\ UNCHANGED <<committeeVars, tokens, nextUser, now>>

\* User.findOne({ passwordResetToken: hashedToken, passwordResetExpires: { $gt: Date.now() } })
FindByResetToken(hashedToken) ==
  {u \in UserIds : /\ users[u] # NoUser
                   /\ users[u].passwordResetToken = hashedToken
                   /\ users[u].passwordResetExpires > now}

\* Mutant of resetPassword: the stored reset hash and expiry are not cleared
resetPasswordKeepingToken(raw, password) ==
  /\ LET hit == FindByResetToken(Sha256(raw))
         id == CHOOSE u \in hit : TRUE
         doc == WithPassword(users[id], password)
     IN IF hit = {}
        THEN /\ users' = users
             /\ tokens' = tokens
             /\ res' = Failure(AppError("Token is invalid or has expired", 400, ""))
             /\ trace' = <<"User.findOne", "next">>
        ELSE /\ users' = [users EXCEPT ![id] = doc]
             /\ tokens' = tokens \cup {SessionToken(id)}
             /\ res' = createSendToken(id, doc, 200)
             /\ trace' = <<"User.findOne", "User.save", "res.cookie", "res.json">>
  /\ req' = [op |-> "resetPassword", raw |-> raw, password |-> password]
  /\ UNCHANGED <<committeeVars, resets, nextUser, now>>

resetPassword(raw, password) ==
  /\ LET hit == FindByResetToken(Sha256(raw))
         id == CHOOSE u \in hit : TRUE
         doc == [WithPassword(users[id], password) EXCEPT
                   !.passwordResetToken = NoHash, !.passwordResetExpires = 0]
     IN IF hit = {}
        THEN /\ users' = users
             /\ tokens' = tokens
             /\ res' = Failure(AppError("Token is invalid or has expired", 400, ""))
             /\ trace' = <<"User.findOne", "next">>
        ELSE /\ users' = [users EXCEPT ![id] = doc]
             /\ tokens' = tokens \cup {SessionToken(id)}
             /\ res' = createSendToken(id, doc, 200)
             /\ trace' = <<"User.findOne", "User.save", "res.cookie", "res.json">>
  /\ req' = [op |-> "resetPassword", raw |-> raw, password |-> password]
  /\ UNCHANGED <<committeeVars, resets, nextUser, now>>

\* time passes
Tick ==
  /\ now < MaxTime
  /\ now' = now + 1
  /\ UNCHANGED <<users, committeeVars, tokens, resets, nextUser, req, res, trace>>

(***************************************************************************)
(* Initial state: NumUsers registered users, nothing else.                 *)
(***************************************************************************)
Init ==
  /\ users = [u \in UserIds |-> IF u \in Registered THEN InitialUser(u) ELSE NoUser]
  /\ committees = [c \in CommitteeIds |-> NoCommittee]
  /\ nextCommittee = 1
  /\ files = {}
  /\ nextFile = 1
  /\ unlinks = {}
  /\ req = [op |-> "none"]
  /\ res = Answer(0, NoCommittee)
  /\ trace = <<>>
  /\ tokens = {}
  /\ resets = {}
  /\ nextUser = NumUsers + 1
  /\ now = 1
  /\ served = 0

\* one more request is served within the run's budget
Count == served < MaxRequests /\ served' = served + 1

\* The authenticated user of a request whose handler only logs req.user
Requester == CHOOSE u \in UserIds : users[u] # NoUser

KnownIds == {EmployeeIdTable[u] : u \in Registered}
ProfileBodies == {[name |-> n] : n \in Names}

(***************************************************************************)
(* Spec: the committee service over MaxRequests requests, member lists of  *)
(* employee ids given as strings.                                          *)
(***************************************************************************)
IdLists == UNION {[1..n -> {Str(e) : e \in KnownIds}] : n \in 0..MaxMembers}
CreateBodies == {[name |-> "Tender", members |-> Arr(l)] : l \in IdLists}
UpdateCommitteeBodies == {[members |-> Arr(l)] : l \in IdLists}

Next ==
  \/ Count /\ \E u \in UserIds, b \in CreateBodies, f \in BOOLEAN, t \in BOOLEAN :
                createCommittee(u, b, f, t, FALSE)
  \/ Count /\ \E c \in CommitteeIds, b \in UpdateCommitteeBodies, t \in BOOLEAN :
                updateCommittee(Requester, c, b, t, FALSE)
  \/ Count /\ \E c \in CommitteeIds, t \in BOOLEAN : deleteCommittee(Requester, c, t)
  \/ Count /\ \E u \in UserIds, v \in UserIds, b \in ProfileBodies : updateUser(u, v, b)
  \/ Count /\ \E u \in UserIds, b \in ProfileBodies : updateMe(u, b)
  \/ Count /\ \E u \in UserIds, v \in UserIds : deleteUser(u, v)
  \/ \E p \in Paths, ok \in BOOLEAN : UnlinkDone(p, ok) /\ UNCHANGED served

Spec == Init /\ [][Next]_vars

(***************************************************************************)
(* SpecMembers: any administration of the users, then one createCommittee  *)
(* request whose members field is any value of the request format.         *)
(***************************************************************************)
Entries ==
  {Str(e) : e \in KnownIds \cup {UnknownEmployeeId, "", " "}}
    \cup {Obj(Str(EmployeeIdTable[NumUsers])), Obj(Undefined), Obj(Num(7)), Num(5), Null}
MemberLists == UNION {[1..n -> Entries] : n \in 0..MaxMembers}
MembersFields ==
  {Arr(l) : l \in MemberLists} \cup {JsonText(Arr(l)) : l \in MemberLists}
    \cup {JsonText(Malformed), JsonText(Str("E100"))}
PlainCreateBodies ==
  {[name |-> "Tender"]} \cup {[name |-> "Tender", members |-> m] : m \in MembersFields}
AnyCreateBodies ==
  PlainCreateBodies
    \cup {[k \in DOMAIN b \cup {"shouldNotify"} |->
             IF k = "shouldNotify" THEN Str("true") ELSE b[k]] : b \in PlainCreateBodies}

MembersNext ==
  \/ served = 0 /\ UNCHANGED served
       /\ \E u \in UserIds, v \in UserIds, b \in ProfileBodies : updateUser(u, v, b)
  \/ served = 0 /\ UNCHANGED served
       /\ \E u \in UserIds, v \in UserIds : deleteUser(u, v)
  \/ served = 0 /\ served' = 1
       /\ \E u \in UserIds, b \in AnyCreateBodies, f \in BOOLEAN, t \in BOOLEAN,
             mf \in BOOLEAN :
            createCommittee(u, b, f, t, mf)
  \/ \E p \in Paths, ok \in BOOLEAN : UnlinkDone(p, ok) /\ UNCHANGED served

SpecMembers == Init /\ [][MembersNext]_vars

(***************************************************************************)
(* SpecAuth: the auth service over MaxRequests requests and MaxTime ticks. *)
(***************************************************************************)
Emails == {EmailTable[p] : p \in UserIds}
Passwords == {"pw1", "pw2"}
StatusBodies == {[isActive |-> a] : a \in BOOLEAN}
\* bodies of updateMe: profile fields, sensitive fields with truthy and with falsy
\* values, and both together
MeBodies ==
  { [name |-> "Zed"],
    [email |-> EmailTable[1]],
    [otpEnabled |-> TRUE],
    [isActive |-> FALSE],
    [isActive |-> TRUE],
    [role |-> ""],
    [role |-> "admin"],
    [password |-> ""],
    [password |-> "pw2"],
    [permissions |-> {"manage_users"}],
    [name |-> "Zed", isActive |-> FALSE, role |-> "", password |-> ""],
    [name |-> "Zed", role |-> "admin"] }
\* the users some signed token passes the guard for
Authenticated == {ProtectRun(t, NoToken).user : t \in tokens} \ {0}

AuthNext ==
  \/ Count /\ \E p \in UserIds, pw \in Passwords : register(p, pw)
  \/ Count /\ \E e \in Emails \cup {""}, pw \in Passwords \cup {""} : login(e, pw)
  \/ Count /\ \E b \in tokens \cup {NoToken, Forged}, c \in tokens \cup {NoToken} :
                protect(b, c)
  \/ Count /\ \E u \in Authenticated, cur \in Passwords, pw \in Passwords :
                updatePassword(u, cur, pw)
  \/ Count /\ \E e \in Emails : forgotPassword(e)
  \/ Count /\ \E raw \in resets \cup {0}, pw \in Passwords : resetPassword(raw, pw)
  \/ Count /\ \E u \in Authenticated, v \in UserIds, b \in StatusBodies : updateUser(u, v, b)
  \/ Count /\ \E u \in Authenticated, v \in UserIds : deleteUser(u, v)
  \/ Count /\ \E u \in Authenticated, b \in MeBodies : updateMe(u, b)
  \/ Tick /\ UNCHANGED served

SpecAuth == Init /\ [][AuthNext]_vars

(***************************************************************************)
(* SpecCommittee: committees are created, then either one updateCommittee  *)
(* with any body of the request format is served, or up to MaxFetches      *)
(* getCommittee requests are.                                              *)
(***************************************************************************)
MaxFetches == 2
UpdateEntries ==
  {Str(EmployeeIdTable[1]), Str(UnknownEmployeeId), Str(""), Null,
   Obj(Str(EmployeeIdTable[NumUsers]))}
UpdateMemberLists == UNION {[1..n -> UpdateEntries] : n \in 0..MaxMembers}
UpdateMembersFields ==
  {Arr(l) : l \in UpdateMemberLists}
    \cup {JsonText(Malformed), JsonText(Arr(<<Str(EmployeeIdTable[1])>>))}
\* the other fields a body may carry, each with a value the store does not hold
FieldValue ==
  [name |-> "Audit", approvalStatus |-> "approved", formationLetter |-> MaxFiles + 1,
   shouldNotify |-> Str("true")]
FieldBodies == {[k \in keys |-> FieldValue[k]] : keys \in SUBSET DOMAIN FieldValue}
AnyUpdateBodies ==
  FieldBodies
    \cup {[members |-> m] : m \in UpdateMembersFields}
    \cup {[k \in DOMAIN FieldValue \cup {"members"} |->
             IF k = "members" THEN m ELSE FieldValue[k]] : m \in UpdateMembersFields}

CommitteeNext ==
  \/ served = 0 /\ UNCHANGED served
       /\ \E b \in CreateBodies, f \in BOOLEAN : createCommittee(Requester, b, f, FALSE, FALSE)
  \/ served = 0 /\ served' = 1
       /\ \E c \in CommitteeIds, b \in AnyUpdateBodies, t \in BOOLEAN, mf \in BOOLEAN :
            updateCommittee(Requester, c, b, t, mf)
  \/ served < MaxFetches /\ req.op # "updateCommittee" /\ served' = served + 1
       /\ \E c \in CommitteeIds, t \in BOOLEAN : getCommittee(c, t)

SpecCommittee == Init /\ [][CommitteeNext]_vars

(***************************************************************************)
(* SpecConcurrent: two updateCommittee requests on the same committee, in  *)
(* flight together.  Each await of the handler is a point where the other  *)
(* request may run: after Committee.findById, after the member lookups,    *)
(* and at committee.save().  Here req holds the requests in flight (their  *)
(* bodies, where each stands, the document each loaded, the updates each   *)
(* resolved, the order of the saves) and res holds one answer per request. *)
(***************************************************************************)
Requests == {1, 2}
With(body, k, v) == [x \in DOMAIN body \cup {k} |-> IF x = k THEN v ELSE body[x]]
NameBodies == {[name |-> n] : n \in {"Tender", "Audit", "Board"}}
StatusOnlyBodies == {[approvalStatus |-> a] : a \in {"pending", "approved"}}
ScalarBodies ==
  NameBodies \cup StatusOnlyBodies
    \cup {With(b, "approvalStatus", a) : b \in NameBodies, a \in {"pending", "approved"}}
ConcurrentMembers == {Arr(<<Str(EmployeeIdTable[u])>>) : u \in Registered}
ConcurrentBodies ==
  ScalarBodies \cup {[members |-> m] : m \in ConcurrentMembers}
    \cup {With(b, "members", m) : b \in ScalarBodies, m \in ConcurrentMembers}

\* the committee both requests address, as it is stored when they arrive
StoredCommittee ==
  [ name |-> "Tender",
    members |-> <<Snapshot(InitialUser(1))>>,
    createdBy |-> 1,
    formationLetter |-> 0,
    approvalStatus |-> "pending" ]

InitConcurrent ==
  /\ users = [u \in UserIds |-> IF u \in Registered THEN InitialUser(u) ELSE NoUser]
  /\ committees = [c \in CommitteeIds |-> IF c = 1 THEN StoredCommittee ELSE NoCommittee]
  /\ nextCommittee = 2
  /\ files = {}
  /\ nextFile = 1
  /\ unlinks = {}
  /\ \E b1 \in ConcurrentBodies, b2 \in ConcurrentBodies :
       req = [ op |-> "updateCommittee", id |-> 1, body |-> <<b1, b2>>,
               pc |-> <<"find", "find">>,
               doc |-> <<NoCommittee, NoCommittee>>,
               updates |-> <<b1, b2>>,
               saved |-> <<>> ]
  /\ res = <<Answer(0, NoCommittee), Answer(0, NoCommittee)>>
  /\ trace = <<>>
  /\ tokens = {}
  /\ resets = {}
  /\ nextUser = NumUsers + 1
  /\ now = 1
  /\ served = 0

\* const committee = await Committee.findById(id).populate(...): 404 when absent
Find(p) ==
  /\ req.pc[p] = "find"
  /\ IF committees[req.id] = NoCommittee
     THEN /\ res' = [res EXCEPT ![p] =
                       Failure(AppError("No committee found with that ID", 404, ""))]
          /\ req' = [req EXCEPT !.pc[p] = "done"]
     ELSE /\ res' = res
          /\ req' = [req EXCEPT !.pc[p] = "resolve", !.doc[p] = committees[req.id]]
  /\ trace' = Append(trace, [by |-> p, step |-> "Committee.findById"])
  /\ UNCHANGED <<users, committeeVars, authVars, served>>

\* allowedUpdates, with the member list resolved by its User.findOne lookups
Resolve(p) ==
  /\ req.pc[p] = "resolve"
  /\ LET allowedUpdates == Whitelisted(req.body[p], UpdateCommitteeKeys)
         m == ProcessMembers(Get(allowedUpdates, "members"))
         merged == [k \in DOMAIN allowedUpdates |->
                      IF k = "members" THEN m.members ELSE allowedUpdates[k]]
     IN IF m.kind = "passed"
        THEN /\ res' = res
             /\ req' = [req EXCEPT !.pc[p] = "save", !.updates[p] = merged]
        ELSE /\ res' = [res EXCEPT ![p] =
                          Failure(IF m.kind = "returned" THEN m.error
                                  ELSE AppError("Failed to update committee", 500, ""))]
             /\ req' = [req EXCEPT !.pc[p] = "done"]
  /\ trace' = Append(trace, [by |-> p, step |-> "User.findOne"])
  /\ UNCHANGED <<users, committeeVars, authVars, served>>

\* Object.assign(committee, allowedUpdates) marks a path modified when the value
\* assigned differs from the one the document was loaded with; a member list
\* equal to the loaded one may or may not count as modified (rewrite)
Modified(p, k, rewrite) ==
  /\ k \in DOMAIN req.updates[p] \cap DOMAIN req.doc[p]
  /\ \/ req.updates[p][k] # req.doc[p][k]
     \/ k = "members" /\ rewrite

\* the stored document after committee.save() of request p: the modified paths
\* are written, every other path stays as the store holds it
Written(p, rewrite) ==
  [k \in DOMAIN committees[req.id] |->
     IF Modified(p, k, rewrite) THEN req.updates[p][k] ELSE committees[req.id][k]]

\* await committee.save(), then the fresh findById and the 200 answer
Save(p, rewrite) ==
  /\ req.pc[p] = "save"
  /\ committees' = [committees EXCEPT ![req.id] = Written(p, rewrite)]
  /\ res' = [res EXCEPT ![p] = Answer(200, Populate(Written(p, rewrite)))]
  /\ req' = [req EXCEPT !.pc[p] = "done", !.saved = Append(@, p)]
  /\ trace' = Append(trace, [by |-> p, step |-> "Committee.save"])
  /\ UNCHANGED <<users, nextCommittee, files, nextFile, unlinks, authVars, served>>

ConcurrentNext ==
  \/ \E p \in Requests : Find(p)
  \/ \E p \in Requests : Resolve(p)
  \/ \E p \in Requests, rewrite \in BOOLEAN : Save(p, rewrite)

SpecConcurrent == InitConcurrent /\ [][ConcurrentNext]_vars

(***************************************************************************)
(* Properties.  Served(op): this step serves a request of handler op;      *)
(* unprimed variables are the stores as the handler found them.            *)
(***************************************************************************)
Served(op) == served' = served + 1 /\ req'.op = op

\* the entries of the member list a request carried (none when it carried no array)
Items(r) == IF r.members.t = "array" THEN r.members.items ELSE <<>>
\* an entry that names an employee id: a non-blank string, raw or in an object
NamesId(m) ==
  \/ IsString(m) /\ Trim(m.s) # ""
  \/ m.t = "object" /\ IsString(m.employeeId) /\ Trim(m.employeeId.s) # ""
IdOf(m) == IF IsString(m) THEN m.s ELSE m.employeeId.s
\* an entry that normalizes to a non-string or to an empty or whitespace-only id
Invalid(m) == m # Null /\ ~NamesId(m)
\* the positions of the list whose id matches no user
Unmatched(items) ==
  {i \in 1..Len(items) : NamesId(items[i]) /\ FindByEmployeeId(IdOf(items[i])) = {}}
FirstUnmatched(items) ==
  CHOOSE i \in Unmatched(items) : \A j \in Unmatched(items) : i <= j
\* the user holding an employee id
UserOf(employeeId) == users[CHOOSE u \in FindByEmployeeId(employeeId) : TRUE]

\* C1 (as claimed): whenever createCommittee fails on a request that carried an
\* uploaded file, whether with 400, with 404 or because the save threw, the
\* unlink of the file is issued, and issued before the error is handed to next().
C1_FileDeletedOnEveryFailure ==
  (req.op = "createCommittee" /\ req.file # 0 /\ res.error # NoError)
    => /\ IndexOf(trace, "fs.unlink") # 0
       /\ IndexOf(trace, "fs.unlink") < IndexOf(trace, "next")

C3_InvalidEntry400 ==
  (req.op = "createCommittee" /\ \E i \in 1..Len(Items(req)) : Invalid(Items(req)[i]))
    => /\ res.error.type = "AppError"
       /\ res.error.statusCode = 400
       /\ trace = <<"next">>

\* C4: a successful createCommittee persists one member snapshot per entry of the
\* list, in list order, duplicates included, and the i-th snapshot's name, role,
\* email, employeeId, department and designation are those of the user holding the
\* i-th employee id when the request was served.
C4_SnapshotsInOrder ==
  [][ (Served("createCommittee") /\ res'.status = 201)
        => LET items == Items(req')
               members == committees'[req'.id].members
           IN /\ committees[req'.id] = NoCommittee
              /\ Len(members) = Len(items)
              /\ \A i \in 1..Len(items) :
                   /\ NamesId(items[i])
                   /\ members[i].employeeId = IdOf(items[i])
                   /\ members[i].name = UserOf(IdOf(items[i])).name
                   /\ members[i].role = UserOf(IdOf(items[i])).role
                   /\ members[i].email = UserOf(IdOf(items[i])).email
                   /\ members[i].department = UserOf(IdOf(items[i])).department
                   /\ members[i].designation = UserOf(IdOf(items[i])).designation ]_vars

\* C4 witness: a list of an object and a raw string, for two users of whom the
\* first was renamed before the request, is persisted as two snapshots in that order.
C4_Witness ==
  /\ req.op = "createCommittee"
  /\ res.status = 201
  /\ Items(req) = <<Obj(Str(EmployeeIdTable[2])), Str(EmployeeIdTable[1])>>
  /\ Len(committees[req.id].members) = 2
  /\ committees[req.id].members[1].name # NameTable[2]
  /\ committees[req.id].members[2].name = NameTable[1]

\* the member snapshots of committee c are the same after the step as before it
SnapshotsKept(c) ==
  /\ (committees'[c] = NoCommittee) = (committees[c] = NoCommittee)
  /\ committees[c] # NoCommittee => committees'[c].members = committees[c].members

\* C5: an updateUser, updateMe or deleteUser leaves the member snapshots of every
\* committee as they were, and an updateCommittee leaves those of every committee
\* but its own as they were, whatever employee ids the snapshots carry.
C5_SnapshotsArePointInTime ==
  [][ /\ (Served("updateUser") \/ Served("updateMe") \/ Served("deleteUser"))
           => \A c \in CommitteeIds : SnapshotsKept(c)
      /\ Served("updateCommittee")
           => \A c \in CommitteeIds \ {req'.id} : SnapshotsKept(c) ]_vars

\* C5 witness: a user was renamed and a committee still holds the snapshot taken
\* under the old name.
C5_Witness ==
  /\ req.op = "updateUser"
  /\ res.status = 200
  /\ \E c \in CommitteeIds :
       /\ committees[c] # NoCommittee
       /\ \E i \in 1..Len(committees[c].members) :
            /\ committees[c].members[i].employeeId = users[req.id].employeeId
            /\ committees[c].members[i].name # users[req.id].name

\* C6 (as claimed): once deleteCommittee has answered 204 the record is gone and
\* the formation letter, if there was one, is no longer in storage.
C6_FileGoneAfter204 ==
  (req.op = "deleteCommittee" /\ res.status = 204)
    => /\ committees[req.id] = NoCommittee
       /\ req.file # 0 => req.file \notin files

\* C6 (amended): a deleteCommittee on an existing committee that answers 204 has
\* removed the record and, if the committee had a formation letter, has issued the
\* unlink of that file before deleting the record; the file leaves storage when
\* that unlink completes, and stays if the unlink fails.  Without a formation
\* letter nothing is unlinked and the answer is 204 as well; the only error of a
\* deleteCommittee on an existing committee is the store's.
C6_DeleteUnlinksLetter ==
  [][ /\ (Served("deleteCommittee") /\ res'.status = 204)
           => /\ committees[req'.id] # NoCommittee
              /\ committees'[req'.id] = NoCommittee
              /\ LET letter == committees[req'.id].formationLetter
                 IN IF letter # 0
                    THEN /\ letter \in unlinks'
                         /\ IndexOf(trace', "fs.unlink") # 0
                         /\ IndexOf(trace', "fs.unlink")
                              < IndexOf(trace', "Committee.findByIdAndDelete")
                    ELSE unlinks' = unlinks /\ IndexOf(trace', "fs.unlink") = 0
      /\ (Served("deleteCommittee") /\ committees[req'.id] # NoCommittee)
           => \/ res'.status = 204 /\ res'.error = NoError
              \/ res'.error.message = "Error deleting committee"
      /\ \A p \in unlinks \ unlinks' : files' = files \ {p} \/ files' = files ]_vars

\* C6 witness: a committee with a formation letter was deleted with 204 and the
\* unlink of the letter has not completed.
C6_Witness ==
  /\ req.op = "deleteCommittee"
  /\ res.status = 204
  /\ req.file # 0
  /\ req.file \in unlinks
  /\ req.file \in files
  /\ committees[req.id] = NoCommittee

\* the guard turns the token away: 401, no user attached, the handler does not run
Rejected(answer) ==
  /\ answer.error.type = "AppError"
  /\ answer.error.statusCode = 401
  /\ answer.user = 0
  /\ answer.status = 0

\* a signed token whose user changed the password after the token was issued
Stale(t) ==
  /\ t \in tokens
  /\ users[t.id] # NoUser
  /\ users[t.id].passwordChangedAt > t.iat

C8_ExpiredTokenRejected ==
  \A t \in tokens :
    now >= t.iat + JwtExpiresIn => Rejected(ProtectRun(t, NoToken))

\* the user holding an email address
UserByEmail(email) == users[CHOOSE u \in FindByEmail(email) : TRUE]

\* login turned the request away with the given status and issued nothing
Refused(statusCode) ==
  /\ res'.error.type = "AppError"
  /\ res'.error.statusCode = statusCode
  /\ res'.status = 0
  /\ res'.token = NoToken
  /\ res'.cookie = NoToken
  /\ tokens' = tokens

\* C9: a login with the email of an existing user and a password that does not
\* match that user's stored password answers 401, carries no session token and sets
\* no jwt cookie.
C9_WrongPassword401 ==
  [][ (/\ Served("login")
       /\ req'.email # "" /\ req'.password # ""
       /\ FindByEmail(req'.email) # {}
       /\ ~correctPassword(req'.password, UserByEmail(req'.email).password))
        => Refused(401) ]_vars

\* C9 witness: the first user's email with the second user's password got 401.
C9_Witness ==
  /\ req.op = "login"
  /\ req.email = EmailTable[1]
  /\ req.password = PasswordTable[2]
  /\ users[1] # NoUser /\ users[1].password = Hash(PasswordTable[1])
  /\ res.error.statusCode = 401
  /\ res.token = NoToken

\* the cases in which login must not let the request through
Missing(r) == r.email = "" \/ r.password = ""
Unknown(r) == FindByEmail(r.email) = {}
Mismatch(r) ==
  FindByEmail(r.email) # {} /\ ~correctPassword(r.password, UserByEmail(r.email).password)
Inactive(r) == FindByEmail(r.email) # {} /\ ~UserByEmail(r.email).isActive

\* C10 (as claimed): login answers 401 when the email or the password is missing,
\* when no user has the email, when the password does not match and when the
\* account is inactive, and issues a session token only when none of these applies.
C10_EveryFailure401 ==
  [][ Served("login")
        => /\ (Missing(req') \/ Unknown(req') \/ Mismatch(req') \/ Inactive(req'))
                => Refused(401)
           /\ res'.token # NoToken
                => ~(Missing(req') \/ Unknown(req') \/ Mismatch(req') \/ Inactive(req')) ]_vars

\* C10 (amended): login answers 400 when the email or the password is missing;
\* otherwise 401 when no user has the email, when the password does not match or
\* when the account is inactive; and it issues a session token, to the user of that
\* email, exactly when none of these cases applies.
C10_LoginFailures ==
  [][ Served("login")
        => /\ Missing(req') => Refused(400)
           /\ (~Missing(req') /\ (Unknown(req') \/ Mismatch(req') \/ Inactive(req')))
                => Refused(401)
           /\ ~(Missing(req') \/ Unknown(req') \/ Mismatch(req') \/ Inactive(req'))
                => /\ res'.status = 200
                   /\ res'.error = NoError
                   /\ res'.token # NoToken
                   /\ res'.cookie = res'.token
                   /\ users[res'.token.id].email = req'.email
                   /\ tokens' = tokens \cup {res'.token} ]_vars

\* C10 witness: a deactivated account presented its own email and password and
\* got 401 and no token.
C10_Witness ==
  /\ req.op = "login"
  /\ ~Missing(req)
  /\ ~Unknown(req)
  /\ ~Mismatch(req)
  /\ Inactive(req)
  /\ res.error.statusCode = 401
  /\ res.token = NoToken

\* C11: a deleteUser whose target is the requester's own account is rejected with
\* 403 and leaves every user record, the requester's included, in the store; a
\* deleteUser on an existing user other than the requester answers 204, removes
\* that user and no other.
C11_SelfDeleteForbidden ==
  [][ Served("deleteUser")
        => /\ req'.id = req'.user
                => /\ res'.error.type = "AppError"
                   /\ res'.error.statusCode = 403
                   /\ res'.status = 0
                   /\ users' = users
                   /\ users'[req'.user] # NoUser
           /\ (req'.id # req'.user /\ users[req'.id] # NoUser)
                => /\ res'.status = 204
                   /\ res'.error = NoError
                   /\ users'[req'.id] = NoUser
                   /\ \A u \in UserIds \ {req'.id} : users'[u] = users[u] ]_vars

\* C11 witness: a user asked to delete their own account, got 403 and is still
\* in the store.
C11_Witness ==
  /\ req.op = "deleteUser"
  /\ req.id = req.user
  /\ res.error.statusCode = 403
  /\ users[req.user] # NoUser

\* a raw reset token that resetPassword would accept now: its hash is some user's
\* stored reset hash and that user's expiry lies in the future
Redeemable(raw) == FindByResetToken(Sha256(raw)) # {}
\* the same of the stores as the step leaves them
RedeemableAfter(raw) ==
  \E u \in UserIds : /\ users'[u] # NoUser
                      /\ users'[u].passwordResetToken = Sha256(raw)
                      /\ users'[u].passwordResetExpires > now'
\* the user a redeemable token belongs to
Holder(raw) == CHOOSE u \in FindByResetToken(Sha256(raw)) : TRUE

\* C12: a resetPassword with a redeemable token answers 200, stores the new
\* password for the token's user and for no other, clears that user's reset hash
\* and expiry, issues that user a session token, and leaves the token not
\* redeemable; a token handed out by forgotPassword that is not redeemable (used,
\* expired or replaced) never becomes redeemable again; and a resetPassword with a
\* token that is not redeemable answers 400 and changes no user.
C12_ResetTokenOnce ==
  [][ /\ (Served("resetPassword") /\ Redeemable(req'.raw))
           => /\ res'.status = 200
              /\ res'.error = NoError
              /\ users'[Holder(req'.raw)].password = Hash(req'.password)
              /\ users'[Holder(req'.raw)].passwordResetToken = NoHash
              /\ users'[Holder(req'.raw)].passwordResetExpires = 0
              /\ \A u \in UserIds \ {Holder(req'.raw)} : users'[u] = users[u]
              /\ res'.token.id = Holder(req'.raw)
              /\ res'.token \in tokens'
              /\ ~RedeemableAfter(req'.raw)
      /\ (Served("resetPassword") /\ ~Redeemable(req'.raw))
           => /\ res'.error.type = "AppError"
              /\ res'.error.statusCode = 400
              /\ res'.token = NoToken
              /\ users' = users
              /\ tokens' = tokens
      /\ \A raw \in resets : ~Redeemable(raw) => ~RedeemableAfter(raw) ]_vars

\* C12 witness: the only reset token ever handed out was presented again after
\* it had changed its user's password, and got 400.
C12_Witness ==
  /\ req.op = "resetPassword"
  /\ resets = {req.raw}
  /\ res.error.statusCode = 400
  /\ \E u \in UserIds : /\ users[u] # NoUser
                        /\ users[u].passwordChangedAt # 0
                        /\ users[u].passwordResetToken = NoHash
                        /\ users[u].password = Hash(req.password)

\* C13: a createCommittee with the notify flag set during which a notification
\* mail to one or more members is rejected still answers 201 with the created
\* committee and no error, the committee is persisted as created, and no cleanup
\* of the uploaded file is started.
C13_NotificationFailureSwallowed ==
  [][ (Served("createCommittee") /\ req'.notify /\ req'.mailFailed)
        => /\ res'.status = 201
           /\ res'.error = NoError
           /\ req'.id \in CommitteeIds
           /\ committees[req'.id] = NoCommittee
           /\ committees'[req'.id] # NoCommittee
           /\ Len(committees'[req'.id].members) = Len(Items(req'))
           /\ res'.data.members = committees'[req'.id].members
           /\ res'.data.name = committees'[req'.id].name
           /\ IndexOf(trace', "console.error") # 0
           /\ IndexOf(trace', "next") = 0
           /\ unlinks' = unlinks ]_vars

\* C13 witness: a committee of two members was created with the notify flag set,
\* the mails were rejected, and the answer was 201 with the committee in the store.
C13_Witness ==
  /\ req.op = "createCommittee"
  /\ req.notify
  /\ req.mailFailed
  /\ res.status = 201
  /\ Len(committees[req.id].members) = 2
  /\ IndexOf(trace, "transporter.sendMail") # 0
  /\ IndexOf(trace, "console.error") > IndexOf(trace, "transporter.sendMail")

\* the fields of a user's record that updateMe may write
SelfService == {"name", "email", "department", "phoneNumber", "designation", "otpEnabled"}

\* C14: whatever fields the body of an updateMe carries, falsy values of the
\* sensitive fields included, the requester's stored password, role, permissions
\* and isActive are the same after the request as before it; no field outside
\* name, email, department, phoneNumber, designation and otpEnabled changes, and
\* no other user's record changes.
C14_UpdateMeFrame ==
  [][ Served("updateMe")
        => /\ users'[req'.user] # NoUser
           /\ users'[req'.user].password = users[req'.user].password
           /\ users'[req'.user].role = users[req'.user].role
           /\ users'[req'.user].permissions = users[req'.user].permissions
           /\ users'[req'.user].isActive = users[req'.user].isActive
           /\ \A k \in DOMAIN users[req'.user] \ SelfService :
                users'[req'.user][k] = users[req'.user][k]
           /\ \A u \in UserIds \ {req'.user} : users'[u] = users[u] ]_vars

\* C14 witness: an updateMe whose body carried a new name next to isActive=false,
\* an empty role and an empty password was answered 200; the name is stored, the
\* account is still active and the role is the one it had.
C14_Witness ==
  /\ req.op = "updateMe"
  /\ Has(req.body, "isActive") /\ ~req.body.isActive
  /\ Has(req.body, "role") /\ req.body.role = ""
  /\ Has(req.body, "name")
  /\ res.status = 200
  /\ users[req.user].name = req.body.name
  /\ users[req.user].isActive
  /\ users[req.user].role \in {"admin", "staff"}

\* C15: a getCommittee changes no stored committee, user or file; and when the
\* request served before it was a getCommittee of the same committee, so that no
\* write lies between the two, and the store answered both, the second response
\* is the first one: same status, same data, same error.
C15_FetchIdempotent ==
  [][ Served("getCommittee")
        => /\ committees' = committees
           /\ users' = users
           /\ files' = files
           /\ unlinks' = unlinks
           /\ nextCommittee' = nextCommittee
           /\ (req'.repeat /\ res.error.statusCode # 500 /\ res'.error.statusCode # 500)
                => res' = res ]_vars

\* C15 witness: a committee with members was fetched twice in a row and the second
\* fetch answered 200 with the stored members and the populated creator.
C15_Witness ==
  /\ req.op = "getCommittee"
  /\ req.repeat
  /\ res.status = 200
  /\ res.data.members = committees[req.id].members
  /\ Len(res.data.members) > 0
  /\ res.data.createdBy.name = users[committees[req.id].createdBy].name

\* the provided fields of an updateCommittee body that reach the stored document
Provided(body) == DOMAIN body \cap {"name", "members", "approvalStatus"}

\* C16 (as claimed): an updateCommittee on an id that matches no committee fails
\* with 404; one whose member list holds an empty or non-string id fails with 400;
\* one whose member list holds valid ids of which one matches no user fails with
\* 404 naming that id; in each of these failures, and in every other, the stored
\* committees are unchanged; and on success only the provided whitelisted fields
\* of the committee change, its formation letter and creator staying as they were.
C16_UpdateAllOrNothing ==
  [][ Served("updateCommittee")
        => /\ committees[req'.id] = NoCommittee
                => /\ res'.error.statusCode = 404
                   /\ committees' = committees
           /\ (/\ committees[req'.id] # NoCommittee
               /\ \E i \in 1..Len(Items(req')) : Invalid(Items(req')[i]))
                => /\ res'.error.type = "AppError"
                   /\ res'.error.statusCode = 400
                   /\ committees' = committees
           /\ (/\ committees[req'.id] # NoCommittee
               /\ \A i \in 1..Len(Items(req')) : NamesId(Items(req')[i])
               /\ Unmatched(Items(req')) # {})
                => /\ res'.error.statusCode = 404
                   /\ res'.error.named = IdOf(Items(req')[FirstUnmatched(Items(req'))])
                   /\ committees' = committees
           /\ res'.error # NoError => committees' = committees
           /\ res'.error = NoError
                => /\ res'.status = 200
                   /\ \A c \in CommitteeIds \ {req'.id} : committees'[c] = committees[c]
                   /\ committees'[req'.id].formationLetter = committees[req'.id].formationLetter
                   /\ committees'[req'.id].createdBy = committees[req'.id].createdBy
                   /\ \A k \in DOMAIN committees[req'.id] \ Provided(req'.body) :
                        committees'[req'.id][k] = committees[req'.id][k] ]_vars

\* both requests have answered
BothDone == \A p \in Requests : req.pc[p] = "done"
\* the request whose save ran last, and the other one
LastSaver == req.saved[Len(req.saved)]
FirstSaver == req.saved[1]
\* the stored fields both requests set
SetByBoth == DOMAIN req.body[1] \cap DOMAIN req.body[2] \cap DOMAIN committees[req.id]
\* both requests loaded the committee before either saved
Overlapped ==
  \A p \in Requests :
    \E i \in 1..Len(trace) :
      /\ trace[i] = [by |-> p, step |-> "Committee.findById"]
      /\ \A j \in 1..i : trace[j].step # "Committee.save"

\* C17 (as claimed): two concurrent updateCommittee requests on one committee both
\* answer with success, and every field both set holds afterwards the value given
\* by the request whose save ran last.
C17_LastSaveWins ==
  (req.op = "updateCommittee" /\ BothDone)
    => /\ \A p \in Requests : res[p].status = 200 /\ res[p].error = NoError
       /\ \A k \in SetByBoth : committees[req.id][k] = req.updates[LastSaver][k]

\* What holds of the two requests instead: no request is rejected or left waiting
\* (a request that has answered has answered 200, and both get to save), and once
\* both have answered, a field both set holds the value of the request whose save
\* ran last whenever that value differs from the one the request had loaded; when
\* it equals the loaded value that save writes nothing for the field (for the
\* member list it may), and the field holds the value the first save gave it.
LastModifyingSaveWins ==
  /\ req.op = "updateCommittee"
       => \A p \in Requests : req.pc[p] = "done"
            => res[p].status = 200 /\ res[p].error = NoError
  /\ (req.op = "updateCommittee" /\ BothDone)
       => /\ Len(req.saved) = 2
          /\ \A k \in SetByBoth :
               IF req.updates[LastSaver][k] # req.doc[LastSaver][k]
               THEN committees[req.id][k] = req.updates[LastSaver][k]
               ELSE \/ committees[req.id][k] = req.updates[FirstSaver][k]
                    \/ k = "members" /\ committees[req.id][k] = req.updates[LastSaver][k]

\* The case in which the last save does win: both requests loaded the committee before either saved, both set
\* the name to different new values and the member list to different members,
\* both answered 200, and the store holds the name and members of the last save.
OverlappedLastSaveWins ==
  /\ req.op = "updateCommittee"
  /\ BothDone
  /\ Overlapped
  /\ {"name", "members"} \subseteq SetByBoth
  /\ req.updates[1].name # req.updates[2].name
  /\ req.updates[1].members # req.updates[2].members
  /\ \A p \in Requests : req.updates[p].name # req.doc[p].name
  /\ \A p \in Requests : res[p].status = 200
  /\ committees[req.id].name = req.updates[LastSaver].name
  /\ committees[req.id].members = req.updates[LastSaver].members

====
